---------------------------- MODULE Spec2Model ----------------------------
(***************************************************************************)
(* A state-machine model of the trading dashboard's React components:      *)
(* BacktestForm, TradingParams, SignalPanel, TradingChart, ResultsChart    *)
(* and APIConfig.  Each component's useState cells are the fields of one   *)
(* record variable; each handler, timer callback and effect is one action. *)
(*                                                                         *)
(* Numbers.  Math.random() returns k / RandDen for a draw k in             *)
(* 0 .. RandDen-1.  A real-valued field the code never rounds is held as   *)
(* its numerator over the denominator named in the comment of the         *)
(* operator that computes it, so that every value is an exact integer.    *)
(***************************************************************************)
EXTENDS Integers, Sequences, FiniteSets, TLC

(***************************************************************************)
(* Bounds of the model.                                                    *)
(***************************************************************************)
\* Math.random() is k / RandDen, k \in 0 .. RandDen - 1.
RandDen == 10

\* The draws the actions enumerate: the least, a middle and the greatest.
LoDraw == 0
MidDraw == RandDen \div 2
HiDraw == RandDen - 1
Draws == {LoDraw, MidDraw, HiDraw}
EndDraws == {LoDraw, HiDraw}

(***************************************************************************)
(* Arithmetic of the JavaScript built-ins on a rational n / d, d > 0.      *)
(***************************************************************************)
\* Math.floor(n / d)
Floor(n, d) == n \div d

\* Math.round(n / d): the nearest integer, a tie going up.
Round(n, d) == (2 * n + d) \div (2 * d)

Min(a, b) == IF a <= b THEN a ELSE b
Max(a, b) == IF a >= b THEN a ELSE b

\* Math.max(lo, Math.min(hi, x))
Clamp(lo, hi, x) == Max(lo, Min(hi, x))

\* The text of a number input: <<>> when it holds no number, <<n>> for n.
\* parseInt(text) || dflt: NaN and 0 are falsy and give the default.
ParseOr(text, dflt) ==
    IF text = <<>> THEN dflt
    ELSE IF text[1] = 0 THEN dflt
    ELSE text[1]

\* The closure of an async handler that is not running.
NoCall == [ isNull |-> TRUE ]

\* The controls of one form the model follows away from their initial
\* values at one time, and the number of fields of rec that differ from
\* base.
MaxEdited == 2

Edited(rec, base) == Cardinality({ key \in DOMAIN rec : rec[key] # base[key] })

VARIABLES
    now,            \* the clock, in ms since the page was mounted
    backtestForm,   \* BacktestForm: params, loading, result, pc, sent
    lastBacktest,   \* the last completed backtest run: its inputs and result
    tradingParams,  \* TradingParams: settings, loading, saveResult, pc, sent
    lastReset,      \* what the last resetToDefaults found: defaults? a save result?
    signalPanel,    \* SignalPanel: its state cells and its pending timers
    executions,     \* the trades handleExecuteTrade logged, oldest first
    tradingChart,   \* TradingChart: its state cells and its pending timers
    resultsChart,   \* ResultsChart: whether it has rendered, its performanceData
    apiConfig,      \* APIConfig: configs, currentConfig, loading, testResult, pc, sent
    apiLog          \* what APIConfig has written with console.log

vars == <<now, backtestForm, lastBacktest, tradingParams, lastReset, signalPanel,
          executions, tradingChart, resultsChart, apiConfig, apiLog>>

\* What the actions of one component leave alone.
NotBacktest == <<now, tradingParams, lastReset, signalPanel, executions, tradingChart, resultsChart,
                 apiConfig, apiLog>>
NotParams == <<now, backtestForm, lastBacktest, signalPanel, executions, tradingChart,
               resultsChart, apiConfig, apiLog>>
NotSignal == <<backtestForm, lastBacktest, tradingParams, lastReset, tradingChart, resultsChart,
               apiConfig, apiLog>>
NotChart == <<backtestForm, lastBacktest, tradingParams, lastReset, signalPanel, executions,
              resultsChart, apiConfig, apiLog>>
NotResults == <<now, backtestForm, lastBacktest, tradingParams, lastReset, signalPanel, executions,
                tradingChart, apiConfig, apiLog>>
NotApi == <<now, backtestForm, lastBacktest, tradingParams, lastReset, signalPanel, executions,
            tradingChart, resultsChart>>

(***************************************************************************)
(* BacktestForm                                                            *)
(***************************************************************************)
\* Dates are day numbers relative to today ('YYYY-MM-DD' strings compare
\* as their days do).  useState's initial params.
InitialParams ==
    [ timeframe          |-> "1h",
      startDate          |-> -30,
      endDate            |-> 0,
      initialBalance     |-> 1000,
      tradeAmountPercent |-> 10,
      emaShortPeriod     |-> 12,
      emaLongPeriod      |-> 26,
      rsiPeriod          |-> 14,
      rsiOverbought      |-> 70,
      rsiOversold        |-> 30 ]

NoResult == [ isNull |-> TRUE ]

\* What the form's controls hand to updateParam, key by key: the select an
\* item of TIMEFRAMES, a date input a date, the slider a value of its
\* range, a number input parseInt(text) || default (parseFloat for the
\* balance).  The min and max of a number input do not stop typed text.
BacktestControlValues(key) ==
    CASE key = "timeframe"          -> { "1h", "4h" }
      [] key = "startDate"          -> { -30, 0 }
      [] key = "endDate"            -> { -30, 0 }
      [] key = "initialBalance"     -> { ParseOr(t, 1000) : t \in { <<>>, <<2000>> } }
      [] key = "tradeAmountPercent" -> { 10, 50 }
      [] key = "emaShortPeriod"     -> { ParseOr(t, 12) : t \in { <<>>, <<30>> } }
      [] key = "emaLongPeriod"      -> { ParseOr(t, 26) : t \in { <<0>>, <<26>> } }
      [] key = "rsiPeriod"          -> { ParseOr(t, 14) : t \in { <<>>, <<7>> } }
      [] key = "rsiOverbought"      -> { ParseOr(t, 70) : t \in { <<>>, <<20>> } }
      [] key = "rsiOversold"        -> { ParseOr(t, 30) : t \in { <<>>, <<80>> } }

BacktestKeys ==
    { "timeframe", "startDate", "endDate", "initialBalance", "tradeAmountPercent",
      "emaShortPeriod", "emaLongPeriod", "rsiPeriod", "rsiOverbought", "rsiOversold" }

\* updateParam(key, value)
UpdateParam(key, value) ==
    /\ Edited([backtestForm.params EXCEPT ![key] = value], InitialParams) <= MaxEdited
    /\ backtestForm' = [backtestForm EXCEPT !.params[key] = value]
    /\ UNCHANGED <<lastBacktest>> /\ UNCHANGED NotBacktest

\* The mockResult of runBacktest from its six Math.random() draws.
\* totalReturn, totalReturnPercent, winRate, maxDrawdown are numerators over
\* RandDen; sharpeRatio is a numerator over 2 * RandDen.
MockResult(d) ==
    [ isNull             |-> FALSE,
      success            |-> TRUE,
      totalReturn        |-> 400 * d[1] - 100 * RandDen,
      totalReturnPercent |-> 40 * d[2] - 10 * RandDen,
      totalTrades        |-> Floor(50 * d[3], RandDen) + 20,
      winRate            |-> 40 * d[4] + 50 * RandDen,
      maxDrawdown        |-> -15 * d[5],
      sharpeRatio        |-> 4 * d[6] + RandDen ]

\* The draws of one run that the model enumerates.
BacktestDraws ==
    { <<a, b, MidDraw, MidDraw, MidDraw, MidDraw>> : a \in EndDraws, b \in EndDraws }

\* runBacktest up to its await: setLoading(true), setResult(null), and the
\* params of this render logged as the run's inputs.  The button that calls
\* it is disabled while loading.
RunBacktestStart ==
    /\ ~backtestForm.loading
    /\ backtestForm' = [backtestForm EXCEPT
                           !.loading = TRUE,
                           !.result = NoResult,
                           !.pc = "awaiting",
                           !.sent = backtestForm.params]
    /\ UNCHANGED <<lastBacktest>> /\ UNCHANGED NotBacktest

\* runBacktest after the 3000 ms await: setResult(mockResult) and, in the
\* finally block, setLoading(false).  Nothing in the try block throws, so
\* the catch branch is never taken.
RunBacktestFinish(d) ==
    /\ backtestForm.pc = "awaiting"
    /\ backtestForm' = [backtestForm EXCEPT
                           !.loading = FALSE,
                           !.result = MockResult(d),
                           !.pc = "idle",
                           !.sent = NoCall]
    /\ lastBacktest' = [ isNull |-> FALSE,
                         inputs |-> backtestForm.sent,
                         result |-> MockResult(d) ]
    /\ UNCHANGED NotBacktest

BacktestFormInit ==
    [ params  |-> InitialParams,
      loading |-> FALSE,
      result  |-> NoResult,
      pc      |-> "idle",
      sent    |-> NoCall ]

NextBacktest ==
    \/ \E key \in BacktestKeys : \E value \in BacktestControlValues(key) :
          UpdateParam(key, value)
    \/ RunBacktestStart
    \/ \E d \in BacktestDraws : RunBacktestFinish(d)

(***************************************************************************)
(* TradingParams                                                           *)
(***************************************************************************)
DEFAULT_SETTINGS ==
    [ emaShortPeriod       |-> 12,
      emaLongPeriod        |-> 26,
      rsiPeriod            |-> 14,
      rsiOverbought        |-> 70,
      rsiOversold          |-> 30,
      maxTradeAmount       |-> 100,
      tradeAmountPercent   |-> 2,
      stopLossPercent      |-> 2,
      takeProfitPercent    |-> 4,
      minTimeBetweenTrades |-> 300,
      autoTradingEnabled   |-> FALSE,
      minConfidence        |-> 70 ]

NoSaveResult == [ isNull |-> TRUE ]

\* The settings' controls with the oversold slider reaching up to the
\* overbought slider's minimum.
SettingControlValuesOverlapping(key) ==
    CASE key = "emaShortPeriod"       -> { ParseOr(t, 12) : t \in { <<>>, <<1>>, <<30>> } }
      [] key = "emaLongPeriod"        -> { ParseOr(t, 26) : t \in { <<0>>, <<20>> } }
      [] key = "rsiPeriod"            -> { ParseOr(t, 14) : t \in { <<>>, <<7>> } }
      [] key = "rsiOverbought"        -> { 60, 70, 90 }
      [] key = "rsiOversold"          -> { 10, 30, 60 }
      [] key = "maxTradeAmount"       -> { ParseOr(t, 100) : t \in { <<>>, <<500>> } }
      [] key = "tradeAmountPercent"   -> { 2, 10 }
      [] key = "stopLossPercent"      -> { 2, 5 }
      [] key = "takeProfitPercent"    -> { 4, 10 }
      [] key = "minTimeBetweenTrades" -> { 60, 300 }
      [] key = "autoTradingEnabled"   -> { TRUE, FALSE }
      [] key = "minConfidence"        -> { 70, 95 }

\* What the settings' controls hand to updateSetting, key by key: a number
\* input gives parseInt(text) || default (parseFloat for the amount), a
\* slider a value of its range, the switch a boolean.
SettingControlValues(key) ==
    CASE key = "emaShortPeriod"       -> { ParseOr(t, 12) : t \in { <<>>, <<1>>, <<30>> } }
      [] key = "emaLongPeriod"        -> { ParseOr(t, 26) : t \in { <<0>>, <<20>> } }
      [] key = "rsiPeriod"            -> { ParseOr(t, 14) : t \in { <<>>, <<7>> } }
      [] key = "rsiOverbought"        -> { 60, 70, 90 }
      [] key = "rsiOversold"          -> { 10, 30, 40 }
      [] key = "maxTradeAmount"       -> { ParseOr(t, 100) : t \in { <<>>, <<500>> } }
      [] key = "tradeAmountPercent"   -> { 2, 10 }
      [] key = "stopLossPercent"      -> { 2, 5 }
      [] key = "takeProfitPercent"    -> { 4, 10 }
      [] key = "minTimeBetweenTrades" -> { 60, 300 }
      [] key = "autoTradingEnabled"   -> { TRUE, FALSE }
      [] key = "minConfidence"        -> { 70, 95 }

SettingKeys ==
    { "emaShortPeriod", "emaLongPeriod", "rsiPeriod", "rsiOverbought", "rsiOversold",
      "maxTradeAmount", "tradeAmountPercent", "stopLossPercent", "takeProfitPercent",
      "minTimeBetweenTrades", "autoTradingEnabled", "minConfidence" }

\* updateSetting(key, value).  The minConfidence slider is disabled while
\* automatic trading is off.
UpdateSetting(key, value) ==
    /\ key = "minConfidence" => tradingParams.settings.autoTradingEnabled
    /\ Edited([tradingParams.settings EXCEPT ![key] = value], DEFAULT_SETTINGS) <= MaxEdited
    /\ tradingParams' = [tradingParams EXCEPT !.settings[key] = value]
    /\ UNCHANGED lastReset /\ UNCHANGED NotParams

\* handleSave up to its await: setLoading(true), setSaveResult(null), and
\* the settings of this render logged as what is saved.
HandleSaveStart ==
    /\ ~tradingParams.loading
    /\ tradingParams' = [tradingParams EXCEPT
                            !.loading = TRUE,
                            !.saveResult = NoSaveResult,
                            !.pc = "awaiting",
                            !.sent = tradingParams.settings]
    /\ UNCHANGED lastReset /\ UNCHANGED NotParams

\* handleSave after the 2000 ms await: the success result, then
\* setLoading(false).  Nothing in the try block throws.
HandleSaveFinish ==
    /\ tradingParams.pc = "awaiting"
    /\ tradingParams' = [tradingParams EXCEPT
                            !.loading = FALSE,
                            !.saveResult = [ isNull |-> FALSE, success |-> TRUE ],
                            !.pc = "idle",
                            !.sent = NoCall]
    /\ UNCHANGED lastReset /\ UNCHANGED NotParams

\* What a call of resetToDefaults finds: the defaults already, a save
\* result on show.
ResetFinds ==
    [ isNull     |-> FALSE,
      wasDefault |-> tradingParams.settings = DEFAULT_SETTINGS,
      hadResult  |-> ~tradingParams.saveResult.isNull ]

\* A resetToDefaults that leaves the save result on show.
ResetToDefaultsKeepingResult ==
    /\ ~tradingParams.loading
    /\ tradingParams' = [tradingParams EXCEPT !.settings = DEFAULT_SETTINGS]
    /\ lastReset' = ResetFinds
    /\ UNCHANGED NotParams

\* resetToDefaults; its button is disabled while loading.
ResetToDefaults ==
    /\ ~tradingParams.loading
    /\ tradingParams' = [tradingParams EXCEPT
                            !.settings = DEFAULT_SETTINGS,
                            !.saveResult = NoSaveResult]
    /\ lastReset' = ResetFinds
    /\ UNCHANGED NotParams

TradingParamsInit ==
    [ settings   |-> DEFAULT_SETTINGS,
      loading    |-> FALSE,
      saveResult |-> NoSaveResult,
      pc         |-> "idle",
      sent       |-> NoCall ]

NextParams ==
    \/ \E key \in SettingKeys : \E value \in SettingControlValues(key) :
          UpdateSetting(key, value)
    \/ HandleSaveStart
    \/ HandleSaveFinish
    \/ ResetToDefaults

(***************************************************************************)
(* The clock and the timers                                                *)
(***************************************************************************)
\* With the user at the page the clock moves by at most ClockStep ms at a
\* time (ChartClockStep at the chart); with only the timers running, by at
\* most DataClockStep.  A specification follows the clock up to its limit.
ClockStep == 500
ChartClockStep == 1500
DataClockStep == 5000
MaxTime == 10000
MaxChartTime == 12000
MaxDataTime == 26500

\* The clock moves on by at most step, up to limit, but never past a timer
\* that is due: a callback runs at the time it was set for.
AdvanceClock(deadlines, step, limit) ==
    /\ now < limit
    /\ \A t \in deadlines : t > now
    /\ now' = IF \E t \in deadlines : t <= now + step
              THEN CHOOSE t \in deadlines : \A u \in deadlines : t <= u
              ELSE now + step

(***************************************************************************)
(* SignalPanel                                                             *)
(***************************************************************************)
\* setTimeout(..., 1000) and setInterval(..., 10000) of the effect.
SIGNAL_LOAD_MS == 1000
SIGNAL_REFRESH_MS == 10000

\* The display rounds confidence and RSI to one decimal: both are held in
\* tenths.
Tenths == 10

\* The execute button is disabled below this confidence (in percent).
EXECUTE_MIN_CONFIDENCE == 60

\* Prop changes (exchange, pair, userId) and logged executions the model
\* follows.
MaxPropChanges == 1
MaxExecutions == 2

NoSignal == [ isNull |-> TRUE ]
NoMarketData == [ isNull |-> TRUE ]

SignalTypes == <<"buy", "sell">>
Strengths == <<"weak", "moderate", "strong">>

\* The word the message uses for a strength (the Persian words for strong,
\* moderate and weak, written here in Latin letters; "kharid" and "forush"
\* below are the words for buy and sell).
StrengthWord(strength) ==
    IF strength = "strong" THEN "qavi"
    ELSE IF strength = "moderate" THEN "motevasset"
    ELSE "zaif"

\* generateSampleSignal of SignalPanel from its draws d (type, strength,
\* confidence, price, ema_short, ema_long, rsi, the RSI of the message) at
\* time t.  confidence and rsi are in tenths; price, ema_short and ema_long
\* are numerators over RandDen.  The message is held as its parts: the
\* direction word, the strength word and the RSI number it quotes.
GenerateSampleSignal(d, t) ==
    LET signal_type == SignalTypes[Floor(d.type * 2, RandDen) + 1]
        strength == Strengths[Floor(d.strength * 3, RandDen) + 1]
    IN  [ isNull      |-> FALSE,
          signal_type |-> signal_type,
          strength    |-> strength,
          confidence  |-> Round((40 * d.confidence + 60 * RandDen) * Tenths, RandDen),
          price       |-> 43000 * RandDen + (2 * d.price - RandDen) * 1000,
          indicators  |->
              [ ema_short |-> 43200 * RandDen + (2 * d.ema_short - RandDen) * 150,
                ema_long  |-> 42800 * RandDen + (2 * d.ema_long - RandDen) * 250,
                rsi       |-> Round((80 * d.rsi + 10 * RandDen) * Tenths, RandDen) ],
          message     |->
              IF signal_type = "buy"
              THEN [ direction |-> "kharid",
                     strength  |-> StrengthWord(strength),
                     rsi       |-> Round(30 * d.message + 10 * RandDen, RandDen) ]
              ELSE [ direction |-> "forush",
                     strength  |-> StrengthWord(strength),
                     rsi       |-> Round(30 * d.message + 70 * RandDen, RandDen) ],
          timestamp   |-> t ]

\* generateMarketData from its draws m (change, price, volume, high, low).
\* change_24h, price, high_24h and low_24h are numerators over RandDen.
GenerateMarketData(m) ==
    [ isNull     |-> FALSE,
      price      |-> 43000 * RandDen + (2 * m[2] - RandDen) * 1000,
      change_24h |-> (2 * m[1] - RandDen) * 5,
      volume_24h |-> Round(m[3] * 10000000, RandDen),
      high_24h   |-> 43000 * RandDen + m[4] * 1500,
      low_24h    |-> 43000 * RandDen - m[5] * 1500 ]

\* The draws of one signal and of one market snapshot the model enumerates.
SignalDraws ==
    [ type : EndDraws, strength : EndDraws, confidence : EndDraws,
      price : {MidDraw}, ema_short : {LoDraw}, ema_long : {HiDraw},
      rsi : EndDraws, message : {HiDraw} ]

MarketDraws == { <<MidDraw, MidDraw, MidDraw, MidDraw, MidDraw>> }

\* The times the panel's pending timers are due.
SignalDeadlines ==
    { t.due : t \in signalPanel.timeouts } \cup { signalPanel.interval.due }

\* The setTimeout callback of the effect run `timer.epoch`: it is never
\* cleared, so it runs whichever effect run is the latest.
SignalInitialLoad(timer, d, m) ==
    /\ timer \in signalPanel.timeouts
    /\ timer.due = now
    /\ signalPanel' = [signalPanel EXCEPT
                          !.currentSignal = GenerateSampleSignal(d, now),
                          !.marketData = GenerateMarketData(m),
                          !.lastUpdate = now,
                          !.loading = FALSE,
                          !.timeouts = signalPanel.timeouts \ {timer}]
    /\ UNCHANGED <<now, executions>> /\ UNCHANGED NotSignal

\* The setInterval callback of the latest effect run (cleanup cleared the
\* earlier ones).
SignalRefresh(d, m) ==
    /\ signalPanel.interval.due = now
    /\ signalPanel' = [signalPanel EXCEPT
                          !.currentSignal = GenerateSampleSignal(d, now),
                          !.marketData = GenerateMarketData(m),
                          !.lastUpdate = now,
                          !.interval.due = now + SIGNAL_REFRESH_MS]
    /\ UNCHANGED <<now, executions>> /\ UNCHANGED NotSignal

\* The panel's effect on a change of exchange, pair or userId: the cleanup
\* clears the interval (not the timeout), the effect runs again.
SignalEffectRerun ==
    /\ signalPanel.epoch < MaxPropChanges
    /\ LET e == signalPanel.epoch + 1
       IN  signalPanel' = [signalPanel EXCEPT
                              !.loading = TRUE,
                              !.epoch = e,
                              !.timeouts = signalPanel.timeouts \cup
                                  { [ due |-> now + SIGNAL_LOAD_MS, epoch |-> e ] },
                              !.interval = [ due   |-> now + SIGNAL_REFRESH_MS,
                                             epoch |-> e ]]

\* The execute button is on the page: the panel is not showing its loading
\* card and there is a signal; it is enabled from 60 % confidence.
ExecuteEnabled ==
    /\ ~signalPanel.loading
    /\ ~signalPanel.currentSignal.isNull
    /\ ~(signalPanel.currentSignal.confidence < EXECUTE_MIN_CONFIDENCE * Tenths)

\* A handleExecuteTrade that, having logged the signal, consumes it.
HandleExecuteTradeConsuming ==
    /\ ExecuteEnabled
    /\ Len(executions) < MaxExecutions
    /\ executions' =
          Append(executions,
                 [ signal_type |-> signalPanel.currentSignal.signal_type,
                   timestamp   |-> signalPanel.currentSignal.timestamp ])
    /\ signalPanel' = [signalPanel EXCEPT !.currentSignal = NoSignal]
    /\ UNCHANGED now /\ UNCHANGED NotSignal

\* handleExecuteTrade, called by the execute button: it returns when there
\* is no signal, and otherwise logs the signal; it sets no state.
HandleExecuteTrade ==
    /\ ExecuteEnabled
    /\ Len(executions) < MaxExecutions
    /\ executions' =
          IF signalPanel.currentSignal.isNull
          THEN executions
          ELSE Append(executions,
                      [ signal_type |-> signalPanel.currentSignal.signal_type,
                        timestamp   |-> signalPanel.currentSignal.timestamp ])
    /\ UNCHANGED <<now, signalPanel>> /\ UNCHANGED NotSignal

\* The automatic-trading button: setIsAutoTrading(!isAutoTrading).
ToggleAutoTrading ==
    /\ ~signalPanel.loading
    /\ signalPanel' = [signalPanel EXCEPT !.isAutoTrading = ~signalPanel.isAutoTrading]
    /\ UNCHANGED <<now, executions>> /\ UNCHANGED NotSignal

\* After the first render and its effect: loading, one timeout and the
\* interval pending.
SignalPanelInit ==
    [ currentSignal |-> NoSignal,
      marketData    |-> NoMarketData,
      loading       |-> TRUE,
      isAutoTrading |-> FALSE,
      lastUpdate    |-> 0,
      epoch         |-> 0,
      timeouts      |-> { [ due |-> SIGNAL_LOAD_MS, epoch |-> 0 ] },
      interval      |-> [ due |-> SIGNAL_REFRESH_MS, epoch |-> 0 ] ]

SignalClock ==
    /\ AdvanceClock(SignalDeadlines, ClockStep, MaxTime)
    /\ UNCHANGED <<signalPanel, executions>> /\ UNCHANGED NotSignal

\* The panel's timer callbacks and its buttons.
SignalEvents ==
    \/ \E timer \in signalPanel.timeouts : \E d \in SignalDraws : \E m \in MarketDraws :
          SignalInitialLoad(timer, d, m)
    \/ \E d \in SignalDraws : \E m \in MarketDraws : SignalRefresh(d, m)
    \/ HandleExecuteTrade
    \/ ToggleAutoTrading

(***************************************************************************)
(* TradingChart                                                            *)
(***************************************************************************)
\* setTimeout(..., 1500) of the load effect, setInterval(..., 5000) of the
\* real-time effect, the points generateSampleData makes and the points the
\* real-time update keeps (slice(-50)), and the hour between two points.
CHART_LOAD_MS == 1500
CHART_TICK_MS == 5000
CHART_POINTS == 50
CHART_WINDOW == 50
HOUR_MS == 3600000
MINUTE_MS == 60 * 1000
DAY_MS == 24 * HOUR_MS

\* The wall clock (the ms of the local day) when the page was mounted; the
\* local zone keeps one offset over the two days the chart's points span.
MOUNT_CLOCK == 12 * HOUR_MS

\* new Date(instant).toLocaleTimeString('fa-IR', {hour: '2-digit', minute:
\* '2-digit'}) for the instant t ms after the mount: the text HH:MM, held
\* as its two numbers.  The day and the seconds are not in it.
ToLocaleTimeString(t) ==
    LET clock == (MOUNT_CLOCK + t) % DAY_MS
    IN  [ hour |-> clock \div HOUR_MS, minute |-> (clock % HOUR_MS) \div MINUTE_MS ]

\* Prop changes (exchange, pair) of the chart the model follows.
MaxChartPropChanges == 1

\* The RSI of a chart point is a numerator over RsiDen: the real-time update
\* does not round it.
RsiDen == Tenths * RandDen

NoPoint == [ isNull |-> TRUE ]

\* chartData[chartData.length - 1], undefined when the series is empty.
LatestData(chartData) ==
    IF Len(chartData) = 0 THEN NoPoint ELSE chartData[Len(chartData)]

\* The loop of generateSampleData from point i on, at time t.  draws[i + 1]
\* holds the five draws of point i.  basePrice is a numerator over RandDen.
RECURSIVE SampleDataLoop(_, _, _, _, _)
SampleDataLoop(i, basePrice, data, draws, t) ==
    IF i >= CHART_POINTS THEN data
    ELSE LET d == draws[i + 1]
             newBase == basePrice + (2 * d.price - RandDen) * 500
             ema_short == newBase + (2 * d.ema_short - RandDen) * 100
             ema_long == newBase + (2 * d.ema_long - RandDen) * 200
             rsi == Clamp(0, 100 * RandDen, 50 * RandDen + (2 * d.rsi - RandDen) * 30)
             point == [ isNull    |-> FALSE,
                        time      |-> ToLocaleTimeString(t - (CHART_POINTS - 1 - i) * HOUR_MS),
                        price     |-> Round(newBase, RandDen),
                        ema_short |-> Round(ema_short, RandDen),
                        ema_long  |-> Round(ema_long, RandDen),
                        rsi       |-> Round(rsi * Tenths, RandDen) * RandDen,
                        volume    |-> Round(d.volume * 100000, RandDen) ]
         IN  SampleDataLoop(i + 1, newBase, Append(data, point), draws, t)

GenerateSampleData(draws, t) ==
    SampleDataLoop(0, 43000 * RandDen, << >>, draws, t)

\* TickRsi without its clamp.
TickRsiUnclamped(lastData, k) ==
    lastData.rsi + (2 * k - RandDen) * 5 * Tenths

\* The RSI of the point a real-time update appends after lastData.
TickRsi(lastData, k) ==
    Clamp(0, 100 * RsiDen, lastData.rsi + (2 * k - RandDen) * 5 * Tenths)

\* The point a real-time update appends after lastData, from its five
\* draws d, at time t.  newPrice is a numerator over RandDen.
TickPoint(lastData, d, t) ==
    LET newPrice == lastData.price * RandDen + (2 * d.price - RandDen) * 250
    IN  [ isNull    |-> FALSE,
          time      |-> ToLocaleTimeString(t),
          price     |-> Round(newPrice, RandDen),
          ema_short |-> Round(newPrice + (2 * d.ema_short - RandDen) * 100, RandDen),
          ema_long  |-> Round(newPrice + (2 * d.ema_long - RandDen) * 200, RandDen),
          rsi       |-> TickRsi(lastData, d.rsi),
          volume    |-> Round(d.volume * 100000, RandDen) ]

\* A slice that keeps the first 50 points instead of the last.
SliceWindowOldest(data) ==
    IF Len(data) <= CHART_WINDOW THEN data ELSE SubSeq(data, 1, CHART_WINDOW)

\* newData.slice(-50)
SliceWindow(data) ==
    IF Len(data) <= CHART_WINDOW THEN data
    ELSE SubSeq(data, Len(data) - CHART_WINDOW + 1, Len(data))

\* x || dflt for a number x of the latest point: undefined and 0 are falsy.
OrDefault(latestData, field, dflt) ==
    IF latestData.isNull THEN dflt
    ELSE IF latestData[field] = 0 THEN dflt
    ELSE latestData[field]

\* The confidence of a generated signal, in tenths, from its draw.
ChartConfidence(k) == Round((40 * k + 60 * RandDen) * Tenths, RandDen)

\* generateSampleSignal of TradingChart: latestData is the last point of the
\* chartData its closure holds, d its draws (type, strength, confidence).
\* confidence is in tenths, rsi a numerator over RsiDen.
ChartGenerateSampleSignal(latestData, d, t) ==
    LET signal_type == SignalTypes[Floor(d.type * 2, RandDen) + 1]
        strength == Strengths[Floor(d.strength * 3, RandDen) + 1]
    IN  [ isNull      |-> FALSE,
          signal_type |-> signal_type,
          strength    |-> strength,
          confidence  |-> ChartConfidence(d.confidence),
          price       |-> OrDefault(latestData, "price", 43000),
          indicators  |->
              [ ema_short |-> OrDefault(latestData, "ema_short", 43200),
                ema_long  |-> OrDefault(latestData, "ema_long", 42800),
                rsi       |-> OrDefault(latestData, "rsi", 65 * RsiDen) ],
          message     |->
              IF signal_type = "buy"
              THEN [ direction |-> "kharid",
                     strength  |-> StrengthWord(strength),
                     condition |-> "EMA Cross + RSI Oversold" ]
              ELSE [ direction |-> "forush",
                     strength  |-> StrengthWord(strength),
                     condition |-> "EMA Cross + RSI Overbought" ],
          timestamp   |-> t ]

\* The real-time effect after a render with this isRealTime: the interval
\* it sets, due CHART_TICK_MS from t, or none.
RealTimeEffect(isRealTime, t) ==
    IF isRealTime THEN [ active |-> TRUE, due |-> t + CHART_TICK_MS ]
    ELSE [ active |-> FALSE, due |-> 0 ]

\* The times the chart's pending timers are due.
ChartDeadlines ==
    { t.due : t \in tradingChart.timeouts } \cup
    ( IF tradingChart.interval.active THEN { tradingChart.interval.due } ELSE {} )

\* The setTimeout callback of the load effect: new data, a signal from the
\* generateSampleSignal of the render that set the timer (timer.seen is the
\* last point of that render's chartData), loading off.  chartData changed,
\* so the real-time effect runs again.
ChartInitialLoad(timer, draws, sd) ==
    /\ timer \in tradingChart.timeouts
    /\ timer.due = now
    /\ ~tradingChart.crashed
    /\ tradingChart' = [tradingChart EXCEPT
                           !.chartData = GenerateSampleData(draws, now),
                           !.currentSignal = ChartGenerateSampleSignal(timer.seen, sd, now),
                           !.loading = FALSE,
                           !.timeouts = tradingChart.timeouts \ {timer},
                           !.interval = RealTimeEffect(tradingChart.isRealTime, now)]
    /\ UNCHANGED now /\ UNCHANGED NotChart

\* Math.random() < 0.3
SignalGate(k) == 10 * k < 3 * RandDen

\* The setInterval callback: the updater appends a point after the last
\* one of the current series and keeps the last 50; with the gate's draw
\* below 0.3 a signal is set from the generateSampleSignal of the render
\* that set the interval, whose chartData is the series before this update.
\* On an empty series the updater reads lastData.price of undefined and
\* throws.  chartData changed, so the real-time effect runs again.
ChartTick(d, gate, sd) ==
    /\ tradingChart.interval.active
    /\ tradingChart.interval.due = now
    /\ ~tradingChart.crashed
    /\ LET prevData == tradingChart.chartData
           lastData == LatestData(prevData)
       IN  IF lastData.isNull
           THEN tradingChart' = [tradingChart EXCEPT
                                    !.crashed = TRUE,
                                    !.interval = RealTimeEffect(FALSE, now)]
           ELSE tradingChart' = [tradingChart EXCEPT
                    !.chartData = SliceWindow(Append(prevData, TickPoint(lastData, d, now))),
                    !.currentSignal =
                        IF SignalGate(gate)
                        THEN ChartGenerateSampleSignal(lastData, sd, now)
                        ELSE tradingChart.currentSignal,
                    !.interval = RealTimeEffect(TRUE, now)]
    /\ UNCHANGED now /\ UNCHANGED NotChart

\* A real-time button whose effect cleanup leaves the interval running.
ToggleRealTimeKeepingInterval ==
    /\ ~tradingChart.loading
    /\ ~tradingChart.crashed
    /\ tradingChart' = [tradingChart EXCEPT !.isRealTime = ~tradingChart.isRealTime]
    /\ UNCHANGED now /\ UNCHANGED NotChart

\* The real-time button (on the page once loading is off):
\* setIsRealTime(!isRealTime); the cleanup clears the interval and the
\* effect runs again.
ToggleRealTime ==
    /\ ~tradingChart.loading
    /\ ~tradingChart.crashed
    /\ tradingChart' = [tradingChart EXCEPT
                           !.isRealTime = ~tradingChart.isRealTime,
                           !.interval = RealTimeEffect(~tradingChart.isRealTime, now)]
    /\ UNCHANGED now /\ UNCHANGED NotChart

\* The chart's load effect on a change of exchange or pair: it runs again;
\* its timer's callback closes over the chartData of this render.  The
\* real-time effect does not depend on the pair and is left alone.
ChartEffectRerun ==
    /\ tradingChart.epoch < MaxChartPropChanges
    /\ ~tradingChart.crashed
    /\ LET e == tradingChart.epoch + 1
       IN  tradingChart' = [tradingChart EXCEPT
                               !.loading = TRUE,
                               !.epoch = e,
                               !.timeouts = tradingChart.timeouts \cup
                                   { [ due   |-> now + CHART_LOAD_MS,
                                       epoch |-> e,
                                       seen  |-> LatestData(tradingChart.chartData) ] }]

\* onPairChange of ExchangeSelector, which is the page's setSelectedPair:
\* the page renders again and hands the new pair to SignalPanel and to
\* TradingChart in one commit, so the effects of both run again.  (The
\* exchange cannot change: every other exchange is disabled; setUserId is
\* never called.)
OnPairChange ==
    /\ SignalEffectRerun
    /\ ChartEffectRerun
    /\ UNCHANGED <<now, executions, backtestForm, lastBacktest, tradingParams, lastReset,
                   resultsChart, apiConfig, apiLog>>

\* A first render whose load timer is due only after the interval's first
\* period.
TradingChartInitSlowLoad ==
    [ chartData     |-> << >>,
      currentSignal |-> NoSignal,
      loading       |-> TRUE,
      error         |-> "null",
      isRealTime    |-> TRUE,
      crashed       |-> FALSE,
      epoch         |-> 0,
      timeouts      |-> { [ due |-> CHART_TICK_MS + CHART_LOAD_MS, epoch |-> 0,
                            seen |-> NoPoint ] },
      interval      |-> RealTimeEffect(TRUE, 0) ]

\* After the first render and its effects: loading, no data, the load
\* timer and the interval pending.
TradingChartInit ==
    [ chartData     |-> << >>,
      currentSignal |-> NoSignal,
      loading       |-> TRUE,
      error         |-> "null",
      isRealTime    |-> TRUE,
      crashed       |-> FALSE,
      epoch         |-> 0,
      timeouts      |-> { [ due |-> CHART_LOAD_MS, epoch |-> 0, seen |-> NoPoint ] },
      interval      |-> RealTimeEffect(TRUE, 0) ]

\* The draws the model enumerates: of the fifty points of a load (draw a
\* for the first half and b for the second, the RSI the other way round),
\* of a real-time point, of the gate, and of a signal.
ChartDataDraws ==
    { [ i \in 1 .. CHART_POINTS |->
          [ price     |-> IF 2 * i <= CHART_POINTS THEN a ELSE b,
            ema_short |-> MidDraw,
            ema_long  |-> MidDraw,
            rsi       |-> IF 2 * i <= CHART_POINTS THEN b ELSE a,
            volume    |-> MidDraw ] ] :
      a \in EndDraws, b \in EndDraws }

TickDraws ==
    [ price : {LoDraw}, ema_short : {MidDraw}, ema_long : {MidDraw},
      rsi : EndDraws, volume : {MidDraw} ]

GateDraws == EndDraws

ChartSignalDraws == [ type : EndDraws, strength : {MidDraw}, confidence : {LoDraw} ]

\* The loads the chart's own specification enumerates: those drawing the
\* same value for both halves.
SteadyChartDataDraws == { draws \in ChartDataDraws : draws[1] = draws[CHART_POINTS] }

ChartClock ==
    /\ AdvanceClock(ChartDeadlines, ChartClockStep, MaxChartTime)
    /\ UNCHANGED tradingChart /\ UNCHANGED NotChart

\* The chart's timer callbacks and its button.
ChartEvents ==
    \/ \E timer \in tradingChart.timeouts : \E draws \in SteadyChartDataDraws :
          \E sd \in ChartSignalDraws : ChartInitialLoad(timer, draws, sd)
    \/ \E d \in TickDraws : \E gate \in GateDraws : \E sd \in ChartSignalDraws :
          ChartTick(d, gate, sd)
    \/ ToggleRealTime

\* The panel as the user follows it (the clock moving by ClockStep), and
\* the chart (by ChartClockStep): each with the pair changes of the page.
NextSignal ==
    \/ SignalEvents
    \/ OnPairChange
    \/ SignalClock

NextChart ==
    \/ ChartEvents
    \/ OnPairChange
    \/ ChartClock

\* The clock of the whole page: it stops at every pending timer.
PageClock ==
    /\ AdvanceClock(SignalDeadlines \cup ChartDeadlines, ClockStep, MaxTime)
    /\ UNCHANGED <<signalPanel, executions, tradingChart>>
    /\ UNCHANGED <<backtestForm, lastBacktest, tradingParams, lastReset, resultsChart,
                   apiConfig, apiLog>>

(***************************************************************************)
(* The dashboard's data: the loads and periodic updates of SignalPanel and *)
(* TradingChart, with nobody at the page.                                  *)
(***************************************************************************)
DataSignalDraws ==
    [ type : {LoDraw}, strength : {MidDraw}, confidence : EndDraws,
      price : {MidDraw}, ema_short : {LoDraw}, ema_long : {HiDraw},
      rsi : EndDraws, message : {HiDraw} ]

DataChartSignalDraws == [ type : {LoDraw}, strength : {MidDraw}, confidence : EndDraws ]

DataClock ==
    /\ AdvanceClock(SignalDeadlines \cup ChartDeadlines, DataClockStep, MaxDataTime)
    /\ UNCHANGED <<signalPanel, executions, tradingChart>>
    /\ UNCHANGED <<backtestForm, lastBacktest, tradingParams, lastReset, resultsChart,
                   apiConfig, apiLog>>

NextData ==
    \/ \E timer \in signalPanel.timeouts : \E d \in DataSignalDraws : \E m \in MarketDraws :
          SignalInitialLoad(timer, d, m)
    \/ \E d \in DataSignalDraws : \E m \in MarketDraws : SignalRefresh(d, m)
    \/ \E timer \in tradingChart.timeouts : \E draws \in ChartDataDraws :
          \E sd \in DataChartSignalDraws : ChartInitialLoad(timer, draws, sd)
    \/ \E d \in TickDraws : \E gate \in GateDraws : \E sd \in DataChartSignalDraws :
          ChartTick(d, gate, sd)
    \/ DataClock

(***************************************************************************)
(* The signal panel beside the settings that are to gate its trades.       *)
(***************************************************************************)
RiskKeys == { "autoTradingEnabled", "minConfidence", "minTimeBetweenTrades" }

NextRisk ==
    \/ NextSignal
    \/ \E key \in RiskKeys : \E value \in SettingControlValues(key) :
          UpdateSetting(key, value)

(***************************************************************************)
(* ResultsChart                                                            *)
(***************************************************************************)
\* The days generatePerformanceData runs over and the balance it starts
\* from (the same 1000 the statistics subtract).
PERFORMANCE_DAYS == 30
START_BALANCE == 1000

\* The ledger the statistics are computed from.  price in USDT, amount in
\* thousandths, profit in tenths of a USDT.
SAMPLE_TRADES ==
    << [ timestamp |-> "2024-01-01 10:00", type |-> "buy",  price |-> 42500, amount |-> 23, profit |-> 0 ],
       [ timestamp |-> "2024-01-01 14:30", type |-> "sell", price |-> 43200, amount |-> 23, profit |-> 161 ],
       [ timestamp |-> "2024-01-02 09:15", type |-> "buy",  price |-> 43800, amount |-> 24, profit |-> 0 ],
       [ timestamp |-> "2024-01-02 16:45", type |-> "sell", price |-> 43100, amount |-> 24, profit |-> -168 ],
       [ timestamp |-> "2024-01-03 11:20", type |-> "buy",  price |-> 44200, amount |-> 22, profit |-> 0 ],
       [ timestamp |-> "2024-01-03 18:00", type |-> "sell", price |-> 45100, amount |-> 22, profit |-> 198 ] >>

\* The days of a month of the Persian calendar: 31 in the first six, 30 in
\* the next five, 29 in the last (30 in a leap year).
PersianMonthDays(month, leap) ==
    IF month <= 6 THEN 31
    ELSE IF month <= 11 THEN 30
    ELSE IF leap THEN 30 ELSE 29

\* The Persian date n days before date (month and day; leap tells whether
\* the year before date's ended in a leap Esfand).
RECURSIVE PersianDaysBefore(_, _, _)
PersianDaysBefore(date, n, leap) ==
    IF n <= 0 THEN date
    ELSE IF date.day > 1
         THEN PersianDaysBefore([date EXCEPT !.day = date.day - 1], n - 1, leap)
         ELSE LET month == IF date.month = 1 THEN 12 ELSE date.month - 1
              IN  PersianDaysBefore([ month |-> month,
                                      day   |-> PersianMonthDays(month, leap) ],
                                    n - 1, leap)

\* new Date(Date.now() - k * 24 h).toLocaleDateString('fa-IR', {month:
\* 'short', day: 'numeric'}): the Persian month and day of the local day the
\* instant falls in, held as the two numbers.  today is what Date.now() is
\* in the local zone: its Persian date, its clock (ms of the day), and the
\* zone's last change of offset: instants changeDays or more days back had
\* an offset changeMs greater than today's.
ToLocaleDateString(today, k) ==
    LET clock == today.clock + (IF k >= today.changeDays THEN today.changeMs ELSE 0)
    IN  PersianDaysBefore(today.date, k - Floor(clock, DAY_MS), today.leap)

\* The loop of generatePerformanceData from day i on.  draws[i + 1] holds
\* the two draws of day i (ret for dailyReturn, trades for trades).  The
\* running balance and profitLoss are numerators over 2 * RandDen; the
\* stored balance is in cents; drawdown, a percentage, is a numerator over
\* 20 * RandDen.
RECURSIVE PerformanceLoop(_, _, _, _, _)
PerformanceLoop(i, balance, data, draws, today) ==
    IF i >= PERFORMANCE_DAYS THEN data
    ELSE LET dailyReturn == 100 * draws[i + 1].ret - 45 * RandDen
             trades == Floor(draws[i + 1].trades * 4, RandDen)
             newBalance == balance + dailyReturn
             point == [ date       |-> ToLocaleDateString(today, PERFORMANCE_DAYS - 1 - i),
                        balance    |-> Round(newBalance * 100, 2 * RandDen),
                        trades     |-> trades,
                        profitLoss |-> dailyReturn,
                        drawdown   |->
                            IF newBalance < START_BALANCE * 2 * RandDen
                            THEN newBalance - START_BALANCE * 2 * RandDen
                            ELSE 0 ]
         IN  PerformanceLoop(i + 1, newBalance, Append(data, point), draws, today)

GeneratePerformanceData(draws, today) ==
    PerformanceLoop(0, START_BALANCE * 2 * RandDen, << >>, draws, today)

\* The statistics ResultsChart computes when it renders.  totalReturn is in
\* cents; a percentage is the rational num / den.
TotalReturn(performanceData) ==
    IF Len(performanceData) = 0 THEN 0
    ELSE performanceData[Len(performanceData)].balance - START_BALANCE * 100

TotalReturnPercent(performanceData) ==
    [ num |-> TotalReturn(performanceData) * 100, den |-> 1000 * 100 ]

TotalTrades == Len(SAMPLE_TRADES)

WinningTrades == Cardinality({ i \in 1 .. Len(SAMPLE_TRADES) : SAMPLE_TRADES[i].profit > 0 })

WinRate == [ num |-> WinningTrades * 100, den |-> TotalTrades ]

\* Math.min over the drawdowns (a numerator over 20 * RandDen).
MaxDrawdown(performanceData) ==
    LET ds == { performanceData[i].drawdown : i \in 1 .. Len(performanceData) }
    IN  CHOOSE d \in ds : \A e \in ds : d <= e

\* The draws of the thirty days the model enumerates: draw a up to day
\* `switch`, draw b after it.
PerformanceDraws ==
    { [ i \in 1 .. PERFORMANCE_DAYS |->
          [ ret |-> IF i <= switch THEN a ELSE b, trades |-> MidDraw ] ] :
      switch \in 0 .. PERFORMANCE_DAYS, a \in Draws, b \in Draws }

\* The days the first render can happen on that the model enumerates: noon
\* of 26 Khordad in a zone that keeps its offset, and 23:30 of 20 Aban in a
\* zone that set its clocks back an hour a week before (the instants eight
\* or more days back are 0:30 of the day after, so two of the thirty
\* points carry the same date).
Todays ==
    { [ date |-> [ month |-> 3, day |-> 26 ], clock |-> 12 * HOUR_MS, leap |-> FALSE,
        changeDays |-> PERFORMANCE_DAYS, changeMs |-> 0 ],
      [ date |-> [ month |-> 8, day |-> 20 ], clock |-> 23 * HOUR_MS + 30 * MINUTE_MS,
        leap |-> FALSE, changeDays |-> 8, changeMs |-> HOUR_MS ] }

\* The first render: useState(generatePerformanceData()).
MountResultsChart(draws, today) ==
    /\ ~resultsChart.mounted
    /\ resultsChart' = [ mounted |-> TRUE,
                         performanceData |-> GeneratePerformanceData(draws, today) ]
    /\ UNCHANGED NotResults

ResultsChartInit == [ mounted |-> FALSE, performanceData |-> << >> ]

NextResults ==
    \E draws \in PerformanceDraws : \E today \in Todays : MountResultsChart(draws, today)

(***************************************************************************)
(* APIConfig                                                               *)
(***************************************************************************)
\* The exchange the page has selected.  Every other item of both exchange
\* selects is disabled (status coming_soon), so it never changes.
SelectedExchange == "nobitex"

\* The items of EXCHANGES with status active: the ones a select can give.
ActiveExchanges == { "nobitex" }

\* new Date() and null, the two values of lastTest.
NoDate == [ isNull |-> TRUE ]
DateNow == [ isNull |-> FALSE, time |-> now ]

\* The initial currentConfig, and the empty testResult.
EmptyConfig ==
    [ apiKey |-> "", secret |-> "", isConnected |-> FALSE, lastTest |-> NoDate ]
NoTestResult == [ isNull |-> TRUE ]

\* configs[exchange] of an exchange nothing was saved for.
NoConfig == [ isNull |-> TRUE ]

\* What the user types into the two inputs.
ApiInputValues(field) ==
    IF field = "apiKey" THEN { "", "key-1" } ELSE { "", "secret-1", "secret-2" }

\* handleInputChange(field, value).  The inputs stay editable while a save
\* or a test is running.
HandleInputChange(field, value) ==
    /\ apiConfig' = [apiConfig EXCEPT !.currentConfig[field] = value]
    /\ UNCHANGED apiLog /\ UNCHANGED NotApi

\* The check with its second operand left out: !currentConfig.apiKey.
MissingKeysApiKeyOnly(config) == config.apiKey = ""

\* handleExchangeSelect(exchange), called by the component's exchange
\* select: the saved config of the exchange, or an empty one, becomes
\* currentConfig and the test result is cleared.  It runs whether or not a
\* save or test is pending.  The select offers one enabled exchange.
HandleExchangeSelect(exchange) ==
    /\ apiConfig' =
          [apiConfig EXCEPT
              !.currentConfig =
                  IF exchange \in DOMAIN apiConfig.configs /\ ~apiConfig.configs[exchange].isNull
                  THEN apiConfig.configs[exchange].config
                  ELSE EmptyConfig,
              !.testResult = NoTestResult]
    /\ UNCHANGED apiLog /\ UNCHANGED NotApi

\* !currentConfig.apiKey || !currentConfig.secret
MissingKeys(config) == config.apiKey = "" \/ config.secret = ""

\* handleSaveConfig up to its await.  With a field empty it sets the failure
\* message and returns; otherwise setLoading(true) and the config of this
\* render is written to the console.  Its button is disabled while loading.
HandleSaveConfigStart ==
    /\ ~apiConfig.loading
    /\ IF MissingKeys(apiConfig.currentConfig)
       THEN /\ apiConfig' =
                  [apiConfig EXCEPT !.testResult =
                      [ isNull |-> FALSE, success |-> FALSE, message |-> "fill both fields" ]]
            /\ UNCHANGED apiLog
       ELSE /\ apiConfig' = [apiConfig EXCEPT !.loading = TRUE,
                                              !.pc = "saving",
                                              !.sent = apiConfig.currentConfig]
            /\ apiLog' = apiLog \cup
                  { [ text     |-> "Saving API config for",
                      exchange |-> SelectedExchange,
                      apiKey   |-> apiConfig.currentConfig.apiKey,
                      secret   |-> apiConfig.currentConfig.secret ] }
    /\ UNCHANGED NotApi

\* handleSaveConfig after its await: the config of the render that called
\* it, marked connected, goes into configs and replaces currentConfig.
HandleSaveConfigFinish ==
    /\ apiConfig.pc = "saving"
    /\ LET updatedConfig ==
              [apiConfig.sent EXCEPT !.isConnected = TRUE, !.lastTest = DateNow]
       IN  apiConfig' =
              [apiConfig EXCEPT !.configs[SelectedExchange] =
                                    [ isNull |-> FALSE, config |-> updatedConfig ],
                                !.currentConfig = updatedConfig,
                                !.testResult =
                                    [ isNull |-> FALSE, success |-> TRUE,
                                      message |-> "saved and tested" ],
                                !.loading = FALSE,
                                !.pc = "idle",
                                !.sent = NoCall]
    /\ UNCHANGED apiLog /\ UNCHANGED NotApi

\* handleTestConnection up to its await, were its button not disabled while
\* loading.
HandleTestConnectionStartWhileLoading ==
    /\ IF MissingKeys(apiConfig.currentConfig)
       THEN /\ apiConfig' =
                  [apiConfig EXCEPT !.testResult =
                      [ isNull |-> FALSE, success |-> FALSE, message |-> "enter keys first" ]]
            /\ UNCHANGED apiLog
       ELSE /\ apiConfig' = [apiConfig EXCEPT !.loading = TRUE, !.pc = "testing"]
            /\ apiLog' = apiLog \cup
                  { [ text |-> "Testing connection for", exchange |-> SelectedExchange ] }
    /\ UNCHANGED NotApi

\* handleTestConnection up to its await.
HandleTestConnectionStart ==
    /\ ~apiConfig.loading
    /\ IF MissingKeys(apiConfig.currentConfig)
       THEN /\ apiConfig' =
                  [apiConfig EXCEPT !.testResult =
                      [ isNull |-> FALSE, success |-> FALSE, message |-> "enter keys first" ]]
            /\ UNCHANGED apiLog
       ELSE /\ apiConfig' = [apiConfig EXCEPT !.loading = TRUE, !.pc = "testing"]
            /\ apiLog' = apiLog \cup
                  { [ text |-> "Testing connection for", exchange |-> SelectedExchange ] }
    /\ UNCHANGED NotApi

\* Math.random() > 0.3
IsSuccess(k) == 10 * k > 3 * RandDen

\* handleTestConnection after its await, with draw k for isSuccess.
HandleTestConnectionFinish(k) ==
    /\ apiConfig.pc = "testing"
    /\ apiConfig' =
          IF IsSuccess(k)
          THEN [apiConfig EXCEPT !.testResult =
                                     [ isNull |-> FALSE, success |-> TRUE,
                                       message |-> "connected" ],
                                 !.currentConfig.isConnected = TRUE,
                                 !.currentConfig.lastTest = DateNow,
                                 !.loading = FALSE,
                                 !.pc = "idle"]
          ELSE [apiConfig EXCEPT !.testResult =
                                     [ isNull |-> FALSE, success |-> FALSE,
                                       message |-> "invalid keys" ],
                                 !.loading = FALSE,
                                 !.pc = "idle"]
    /\ UNCHANGED apiLog /\ UNCHANGED NotApi

APIConfigInit ==
    [ configs       |-> [ e \in { SelectedExchange } |-> NoConfig ],
      currentConfig |-> EmptyConfig,
      loading       |-> FALSE,
      testResult    |-> NoTestResult,
      pc            |-> "idle",
      sent          |-> NoCall ]

NextApi ==
    \/ \E field \in { "apiKey", "secret" } : \E value \in ApiInputValues(field) :
          HandleInputChange(field, value)
    \/ HandleSaveConfigStart
    \/ HandleSaveConfigFinish
    \/ HandleTestConnectionStart
    \/ \E k \in EndDraws : HandleTestConnectionFinish(k)
    \/ \E exchange \in ActiveExchanges : HandleExchangeSelect(exchange)

(***************************************************************************)
(* The specifications                                                      *)
(***************************************************************************)
Init ==
    /\ backtestForm = BacktestFormInit
    /\ lastBacktest = [ isNull |-> TRUE ]
    /\ tradingParams = TradingParamsInit
    /\ lastReset = [ isNull |-> TRUE ]
    /\ now = 0
    /\ signalPanel = SignalPanelInit
    /\ executions = << >>
    /\ tradingChart = TradingChartInit
    /\ resultsChart = ResultsChartInit
    /\ apiConfig = APIConfigInit
    /\ apiLog = {}

Next ==
    \/ NextBacktest
    \/ NextParams
    \/ SignalEvents
    \/ ChartEvents
    \/ OnPairChange
    \/ PageClock
    \/ NextResults
    \/ NextApi

Spec == Init /\ [][Next]_vars

\* One component at a time: the others stay as constructed.
SpecBacktest == Init /\ [][NextBacktest]_vars
SpecParams == Init /\ [][NextParams]_vars
SpecSignal == Init /\ [][NextSignal]_vars
SpecRisk == Init /\ [][NextRisk]_vars
SpecChart == Init /\ [][NextChart]_vars
SpecData == Init /\ [][NextData]_vars
SpecResults == Init /\ [][NextResults]_vars
SpecApi == Init /\ [][NextApi]_vars

(***************************************************************************)
(* The claims                                                              *)
(***************************************************************************)
\* The EMA periods a strategy configuration may have: short below long,
\* both at least 2.
ValidEmaPeriods(c) ==
    /\ c.emaShortPeriod >= 2
    /\ c.emaLongPeriod >= 2
    /\ c.emaShortPeriod < c.emaLongPeriod

\* A run of runBacktest, or a call of handleSave, ends in this step.
BacktestEnds == backtestForm.pc = "awaiting" /\ backtestForm'.pc = "idle"
SaveEnds == tradingParams.pc = "awaiting" /\ tradingParams'.pc = "idle"

\* C1: two backtest runs on the same inputs give the same result: a run
\* that ends with the inputs of the run before it sets the result that run
\* set.
C1_BacktestDeterministic ==
    [][ ( /\ BacktestEnds
          /\ ~lastBacktest.isNull
          /\ lastBacktest'.inputs = lastBacktest.inputs )
        => lastBacktest'.result = lastBacktest.result ]_vars

\* C2: a run whose startDate is not before its endDate sets no successful
\* result.
C2_InvalidRangeFails ==
    ( /\ ~lastBacktest.isNull
      /\ lastBacktest.inputs.startDate >= lastBacktest.inputs.endDate )
    => ~lastBacktest.result.success

\* C3: handleSave and runBacktest never end in success on a configuration
\* whose EMA periods are not valid.
C3_InvalidConfigRejected ==
    [][ /\ (SaveEnds /\ tradingParams'.saveResult.success)
            => ValidEmaPeriods(tradingParams.sent)
        /\ (BacktestEnds /\ backtestForm'.result.success)
            => ValidEmaPeriods(backtestForm.sent) ]_vars

\* The panel sets a new current signal in this step; a trade is logged in
\* this step.
SignalEmitted == signalPanel'.currentSignal # signalPanel.currentSignal
TradeExecuted == executions' # executions

\* short above long at the signal's bar and not above it at the point
\* before (the signal before it, when there is one); and the opposite.
UpCross(prev, new) ==
    /\ new.indicators.ema_short > new.indicators.ema_long
    /\ prev.isNull \/ prev.indicators.ema_short <= prev.indicators.ema_long
DownCross(prev, new) ==
    /\ new.indicators.ema_short < new.indicators.ema_long
    /\ prev.isNull \/ prev.indicators.ema_short >= prev.indicators.ema_long

\* C4: a signal is emitted only on an EMA crossover of its direction: a buy
\* on an up-cross, a sell on a down-cross, and a step without a crossover
\* sets no new signal.
C4_SignalsOnlyOnCrossover ==
    [][ SignalEmitted =>
          LET prev == signalPanel.currentSignal
              new == signalPanel'.currentSignal
          IN  /\ new.signal_type = "buy" => UpCross(prev, new)
              /\ new.signal_type = "sell" => DownCross(prev, new) ]_vars

\* x, a numerator over den, lies in [0, 100].
InPercentRange(x, den) == 0 <= x /\ x <= 100 * den

\* C5: the confidence of each current signal, the RSI of each signal's
\* snapshot and the RSI of every chart point lie in [0, 100].
C5_ConfidenceAndRsiInRange ==
    /\ ~signalPanel.currentSignal.isNull =>
          /\ InPercentRange(signalPanel.currentSignal.confidence, Tenths)
          /\ InPercentRange(signalPanel.currentSignal.indicators.rsi, Tenths)
    /\ ~tradingChart.currentSignal.isNull =>
          /\ InPercentRange(tradingChart.currentSignal.confidence, Tenths)
          /\ InPercentRange(tradingChart.currentSignal.indicators.rsi, RsiDen)
    /\ \A i \in 1 .. Len(tradingChart.chartData) :
          InPercentRange(tradingChart.chartData[i].rsi, RsiDen)

\* The point is one a real-time update appends after lastData: price,
\* averages, RSI and volume are those of an update (the text of its time
\* does not tell an update from a load in the same minute).
AppendedAfter(point, lastData) ==
    \E d \in TickDraws : [TickPoint(lastData, d, now) EXCEPT !.time = point.time] = point

\* Both components hold a signal, and the last two real-time updates each
\* left the RSI at 0: the later one was clamped.
C5_Witness ==
    /\ ~signalPanel.currentSignal.isNull
    /\ ~tradingChart.currentSignal.isNull
    /\ Len(tradingChart.chartData) = CHART_WINDOW
    /\ tradingChart.chartData[CHART_WINDOW].rsi = 0
    /\ tradingChart.chartData[CHART_WINDOW - 1].rsi = 0
    /\ AppendedAfter(tradingChart.chartData[CHART_WINDOW],
                     tradingChart.chartData[CHART_WINDOW - 1])
    /\ AppendedAfter(tradingChart.chartData[CHART_WINDOW - 1],
                     tradingChart.chartData[CHART_WINDOW - 2])

\* C6: only a signal whose confidence is at least the configured
\* minConfidence is executed.
C6_LowConfidenceNotExecuted ==
    [][ TradeExecuted =>
          signalPanel.currentSignal.confidence
              >= tradingParams.settings.minConfidence * Tenths ]_vars

\* C7: entries and exits alternate in the ledger of executed trades,
\* starting with an entry: a buy is executed only while flat, a sell only
\* while a position is open.
C7_OnePositionAtATime ==
    /\ \A i \in 1 .. Len(executions) :
          executions[i].signal_type = IF i % 2 = 1 THEN "buy" ELSE "sell"
    /\ \A i \in 1 .. Len(SAMPLE_TRADES) :
          SAMPLE_TRADES[i].type = IF i % 2 = 1 THEN "buy" ELSE "sell"

\* C8: a trade is executed only on a signal at least minTimeBetweenTrades
\* seconds later than the signal of the last executed trade.
C8_TradeCooldown ==
    [][ (TradeExecuted /\ Len(executions) > 0) =>
          signalPanel.currentSignal.timestamp - executions[Len(executions)].timestamp
              >= tradingParams.settings.minTimeBetweenTrades * 1000 ]_vars

\* The rational pn / pd is rn / rd divided by balance, as a percentage or
\* as a fraction.
ReturnRatio(pn, pd, rn, rd, balance) ==
    \/ pn * rd * balance = 100 * rn * pd
    \/ pn * rd * balance = rn * pd

\* C9: every reported totalReturn is the final balance less the initial
\* balance, and the totalReturnPercent reported with it is that totalReturn
\* over the initial balance.
C9_ReturnFiguresConsistent ==
    /\ resultsChart.mounted =>
          LET data == resultsChart.performanceData
              percent == TotalReturnPercent(data)
          IN  /\ TotalReturn(data) = data[Len(data)].balance - START_BALANCE * 100
              /\ ReturnRatio(percent.num, percent.den, TotalReturn(data), 100,
                             START_BALANCE)
    /\ ~lastBacktest.isNull =>
          ReturnRatio(lastBacktest.result.totalReturnPercent, RandDen,
                      lastBacktest.result.totalReturn, RandDen,
                      lastBacktest.inputs.initialBalance)

\* The closed round trips of a ledger (one per exit) and those with a
\* profit.
RoundTrips(trades) == { i \in 1 .. Len(trades) : trades[i].type = "sell" }
WinningRoundTrips(trades) == { i \in RoundTrips(trades) : trades[i].profit > 0 }

\* C10: the winRate shown is the round trips with a profit over the round
\* trips (as a percentage or as a fraction), and 0 when there are none.
C10_WinRateOfRoundTrips ==
    resultsChart.mounted =>
        LET wins == Cardinality(WinningRoundTrips(SAMPLE_TRADES))
            all == Cardinality(RoundTrips(SAMPLE_TRADES))
        IN  IF all = 0 THEN WinRate.num = 0
            ELSE \/ WinRate.num * all = 100 * wins * WinRate.den
                 \/ WinRate.num * all = wins * WinRate.den

\* The running peak of the equity curve at point i (in cents): the largest
\* balance of points 1 .. i, and of the starting balance too when seeded.
RunningPeak(data, i, seeded) ==
    LET bs == { data[j].balance : j \in 1 .. i }
               \cup (IF seeded THEN { START_BALANCE * 100 } ELSE {})
    IN  CHOOSE b \in bs : \A c \in bs : c <= b

\* md, a percentage as a numerator over 20 * RandDen, is the minimum over
\* the curve of (balance[i] - runningPeak[i]) / runningPeak[i] * 100.
IsPeakDrawdown(data, md, seeded) ==
    /\ \E i \in 1 .. Len(data) :
          (data[i].balance - RunningPeak(data, i, seeded)) * 2000 * RandDen
              = md * RunningPeak(data, i, seeded)
    /\ \A i \in 1 .. Len(data) :
          (data[i].balance - RunningPeak(data, i, seeded)) * 2000 * RandDen
              >= md * RunningPeak(data, i, seeded)

\* C11: the maxDrawdown shown is the minimum over the equity curve of the
\* fall from the running peak, as a percentage of that peak (the peak taken
\* over the curve's points, or over them and the starting balance).
C11_DrawdownFromRunningPeak ==
    resultsChart.mounted =>
        \/ IsPeakDrawdown(resultsChart.performanceData,
                          MaxDrawdown(resultsChart.performanceData), FALSE)
        \/ IsPeakDrawdown(resultsChart.performanceData,
                          MaxDrawdown(resultsChart.performanceData), TRUE)

\* The RSI confirmation of a signal of the given direction, with the RSI a
\* numerator over den and the default thresholds: "strong" when the RSI is
\* beyond the threshold on the confirming side, "moderate" when within 10
\* points of it, "weak" otherwise.
RsiConfirmation(signal_type, rsi, den) ==
    LET oversold == DEFAULT_SETTINGS.rsiOversold * den
        overbought == DEFAULT_SETTINGS.rsiOverbought * den
    IN  IF signal_type = "buy"
        THEN IF rsi <= oversold THEN "strong"
             ELSE IF rsi <= oversold + 10 * den THEN "moderate" ELSE "weak"
        ELSE IF rsi >= overbought THEN "strong"
             ELSE IF rsi >= overbought - 10 * den THEN "moderate" ELSE "weak"

\* The score without its magnitude term: base 50, +30 on a strong
\* confirmation, +15 on a moderate one.
ConfirmedScore(confirmation) ==
    50 + (IF confirmation = "strong" THEN 30
          ELSE IF confirmation = "moderate" THEN 15 ELSE 0)

\* The signal's strength is its RSI confirmation, and its confidence (in
\* tenths) is the confirmed score plus a magnitude term of 0 to 20 points,
\* clamped to [0, 100].
FollowsConfidenceRule(signal, rsiDen) ==
    LET confirmation ==
            RsiConfirmation(signal.signal_type, signal.indicators.rsi, rsiDen)
    IN  /\ signal.strength = confirmation
        /\ signal.confidence >= ConfirmedScore(confirmation) * Tenths
        /\ signal.confidence <= Min(100, ConfirmedScore(confirmation) + 20) * Tenths

\* C12: the strength and confidence of every current signal are the
\* deterministic score of its direction and RSI: a buy with the RSI at or
\* below rsiOversold is strong with confidence at least 80.
C12_ConfidenceIsDeterministicScore ==
    /\ ~signalPanel.currentSignal.isNull =>
          FollowsConfidenceRule(signalPanel.currentSignal, Tenths)
    /\ ~tradingChart.currentSignal.isNull =>
          FollowsConfidenceRule(tradingChart.currentSignal, RsiDen)

\* C13: in every state of the trading-parameter settings, rsiOverbought is
\* greater than rsiOversold.
C13_OverboughtAboveOversold ==
    tradingParams.settings.rsiOverbought > tradingParams.settings.rsiOversold

\* Both sliders have been moved to the ends that face each other.
C13_Witness ==
    /\ tradingParams.settings.rsiOverbought = 60
    /\ tradingParams.settings.rsiOversold = 40

\* C14: the message of the panel's current signal is made from that signal:
\* its direction and strength words are those of the signal's fields, and
\* the RSI it quotes is the RSI of the signal's indicator snapshot.
C14_MessageDescribesSignal ==
    ~signalPanel.currentSignal.isNull =>
        LET signal == signalPanel.currentSignal
        IN  /\ signal.message.direction
                  = (IF signal.signal_type = "buy" THEN "kharid" ELSE "forush")
            /\ signal.message.strength = StrengthWord(signal.strength)
            /\ signal.message.rsi * Tenths = signal.indicators.rsi

\* C15: handleExecuteTrade only logs the signal: a step in which it runs
\* places nothing but that log entry and leaves currentSignal, marketData,
\* loading, isAutoTrading and lastUpdate, and every other component, as
\* they were.
C15_ExecuteTradeChangesNoState ==
    [][ TradeExecuted =>
          /\ signalPanel' = signalPanel
          /\ executions' = Append(executions,
                                  [ signal_type |-> signalPanel.currentSignal.signal_type,
                                    timestamp   |-> signalPanel.currentSignal.timestamp ])
          /\ UNCHANGED <<now, backtestForm, lastBacktest, tradingParams, lastReset,
                         tradingChart, resultsChart, apiConfig, apiLog>> ]_vars

\* handleExecuteTrade has run on the signal that is still the current one.
C15_Witness ==
    /\ Len(executions) > 0
    /\ ~signalPanel.currentSignal.isNull
    /\ executions[Len(executions)].timestamp = signalPanel.currentSignal.timestamp
    /\ ~signalPanel.loading

\* The secrets the user can type, in the clear.
PlaintextSecrets == ApiInputValues("secret") \ { "" }

\* C16: the API secret never appears in plaintext in the saved configs or
\* in what the component writes to the console.
C16_SecretNeverInPlaintext ==
    /\ \A e \in DOMAIN apiConfig.configs :
          ~apiConfig.configs[e].isNull =>
              apiConfig.configs[e].config.secret \notin PlaintextSecrets
    /\ \A entry \in apiLog :
          "secret" \in DOMAIN entry => entry.secret \notin PlaintextSecrets

\* The step is a run of the chart's interval callback.
ChartTickStep ==
    \E d \in TickDraws : \E gate \in GateDraws : \E sd \in ChartSignalDraws :
        ChartTick(d, gate, sd)

\* C17: the chart series never holds more than 50 points, and a real-time
\* update of a full series drops its oldest point, keeps the other 49 in
\* order and appends one new point.
C17_ChartWindowSlides ==
    [][ /\ Len(tradingChart'.chartData) <= CHART_WINDOW
        /\ (ChartTickStep /\ Len(tradingChart.chartData) = CHART_WINDOW) =>
              /\ Len(tradingChart'.chartData) = CHART_WINDOW
              /\ \A i \in 1 .. CHART_WINDOW - 1 :
                    tradingChart'.chartData[i] = tradingChart.chartData[i + 1]
              /\ tradingChart'.chartData[CHART_WINDOW].time = ToLocaleTimeString(now)
              /\ AppendedAfter(tradingChart'.chartData[CHART_WINDOW],
                               tradingChart.chartData[CHART_WINDOW]) ]_vars

\* A real-time update has slid the full window: the newest point is an
\* update's, made from the point before it, and that one is the last point
\* of the load that made the series.
C17_Witness ==
    /\ Len(tradingChart.chartData) = CHART_WINDOW
    /\ AppendedAfter(tradingChart.chartData[CHART_WINDOW],
                     tradingChart.chartData[CHART_WINDOW - 1])
    /\ ~AppendedAfter(tradingChart.chartData[CHART_WINDOW - 1],
                      tradingChart.chartData[CHART_WINDOW - 2])
    /\ tradingChart.chartData[CHART_WINDOW].time = ToLocaleTimeString(now)

\* The step is a run of the chart's load timer callback.
ChartLoadStep ==
    \E timer \in tradingChart.timeouts : \E draws \in SteadyChartDataDraws :
        \E sd \in ChartSignalDraws : ChartInitialLoad(timer, draws, sd)

\* C18: while real-time mode is off no periodic update runs: nothing but a
\* load changes the chart series or the current signal.
C18_NoTickWhileRealTimeOff ==
    [][ ~tradingChart.isRealTime =>
          /\ ~ChartTickStep
          /\ \/ ChartLoadStep
             \/ /\ tradingChart'.chartData = tradingChart.chartData
                /\ tradingChart'.currentSignal = tradingChart.currentSignal ]_vars

\* Real-time mode is off, the series is still as its load left it (no
\* update's point at its end), and that load, which set the current signal,
\* is older than the period of the interval.
C18_Witness ==
    /\ ~tradingChart.isRealTime
    /\ ~tradingChart.interval.active
    /\ ~tradingChart.loading
    /\ Len(tradingChart.chartData) = CHART_WINDOW
    /\ ~AppendedAfter(tradingChart.chartData[CHART_WINDOW],
                      tradingChart.chartData[CHART_WINDOW - 1])
    /\ now >= tradingChart.currentSignal.timestamp + CHART_TICK_MS

\* C19: whenever the chart sets a new current signal, the signal's price
\* and indicator snapshot are those of the latest point of the series as it
\* stands after that update.
C19_ChartSignalSnapshotsLatestPoint ==
    [][ tradingChart'.currentSignal # tradingChart.currentSignal =>
          LET signal == tradingChart'.currentSignal
              latest == LatestData(tradingChart'.chartData)
          IN  /\ ~latest.isNull
              /\ signal.price = latest.price
              /\ signal.indicators.ema_short = latest.ema_short
              /\ signal.indicators.ema_long = latest.ema_long
              /\ signal.indicators.rsi = latest.rsi ]_vars

\* Every value Math.random() can give the confidence of a signal, the
\* other draws being the lowest.
ConfidenceDraws ==
    [ type : {LoDraw}, strength : {LoDraw}, confidence : 0 .. RandDen - 1, price : {LoDraw},
      ema_short : {LoDraw}, ema_long : {LoDraw}, rsi : {LoDraw}, message : {LoDraw} ]

\* C20: the execute button of a shown signal is disabled exactly when the
\* signal's confidence is below 60, and generateSampleSignal can give a
\* signal such a confidence.
C20_ExecuteDisabledBelowSixty ==
    /\ (~signalPanel.loading /\ ~signalPanel.currentSignal.isNull) =>
          (~ExecuteEnabled <=>
              signalPanel.currentSignal.confidence < EXECUTE_MIN_CONFIDENCE * Tenths)
    /\ \E d \in ConfidenceDraws :
          GenerateSampleSignal(d, now).confidence < EXECUTE_MIN_CONFIDENCE * Tenths

\* C21: from any state of the settings resetToDefaults restores
\* DEFAULT_SETTINGS and clears saveResult, leaving the rest of the component
\* alone; applied to the state it produced it changes nothing.
C21_ResetRestoresDefaults ==
    [][ ResetToDefaults =>
          /\ tradingParams'.settings = DEFAULT_SETTINGS
          /\ tradingParams'.saveResult = NoSaveResult
          /\ tradingParams'.loading = tradingParams.loading
          /\ tradingParams'.pc = tradingParams.pc
          /\ tradingParams'.sent = tradingParams.sent
          /\ (/\ tradingParams.settings = DEFAULT_SETTINGS
              /\ tradingParams.saveResult = NoSaveResult)
                => tradingParams' = tradingParams ]_vars

\* resetToDefaults has run on changed settings with a save result on show,
\* and the defaults are back with no result.
C21_Witness ==
    /\ ~lastReset.isNull
    /\ ~lastReset.wasDefault
    /\ lastReset.hadResult
    /\ tradingParams.settings = DEFAULT_SETTINGS
    /\ tradingParams.saveResult = NoSaveResult

\* C22: a real-time update never runs on an empty series: whenever the
\* interval callback reads the last point there is one, so it never throws.
C22_TickNeverOnEmptySeries ==
    [][ /\ ChartTickStep => Len(tradingChart.chartData) > 0
        /\ ~tradingChart'.crashed ]_vars

\* The interval callback has just run, after the load that filled the
\* series.
C22_Witness ==
    /\ ~tradingChart.crashed
    /\ Len(tradingChart.chartData) > 0
    /\ Len(tradingChart.chartData) > 1
    /\ AppendedAfter(LatestData(tradingChart.chartData),
                     tradingChart.chartData[Len(tradingChart.chartData) - 1])
    /\ now >= CHART_LOAD_MS + CHART_TICK_MS
    /\ tradingChart.interval = RealTimeEffect(TRUE, now)

\* The load timers whose callback runs in this step.
SignalTimersFired == signalPanel.timeouts \ signalPanel'.timeouts

\* C23: after a change of exchange, pair or user the panel's loading goes
\* off, and its signal is set by a load, only when the timer started by the
\* latest change fires: a timer left from an earlier load does neither.
C23_StaleLoadTimerIgnored ==
    [][ /\ \A timer \in SignalTimersFired :
              timer.epoch # signalPanel.epoch =>
                  /\ signalPanel'.loading = signalPanel.loading
                  /\ signalPanel'.currentSignal = signalPanel.currentSignal
        /\ (signalPanel.loading /\ ~signalPanel'.loading) =>
              \E timer \in SignalTimersFired : timer.epoch = signalPanel.epoch ]_vars

\* C24: handleSaveConfig or handleTestConnection called with an empty apiKey
\* or an empty secret leaves a failure testResult and changes nothing else:
\* configs, currentConfig and loading stay as they were and no save or test
\* is started (nothing is awaited, nothing is logged).
C24_EmptyKeysRejected ==
    [][ ( /\ HandleSaveConfigStart \/ HandleTestConnectionStart
          /\ \/ apiConfig.currentConfig.apiKey = ""
             \/ apiConfig.currentConfig.secret = "" )
        => /\ ~apiConfig'.testResult.isNull
           /\ ~apiConfig'.testResult.success
           /\ apiConfig'.configs = apiConfig.configs
           /\ apiConfig'.currentConfig = apiConfig.currentConfig
           /\ apiConfig'.loading = apiConfig.loading
           /\ apiConfig'.pc = apiConfig.pc
           /\ apiConfig'.sent = apiConfig.sent
           /\ apiLog' = apiLog ]_vars

\* A save went through, the secret was then cleared, and the next save was
\* turned down: the failure message shows beside the saved config.
C24_Witness ==
    /\ ~apiConfig.configs[SelectedExchange].isNull
    /\ apiConfig.currentConfig.apiKey # ""
    /\ apiConfig.currentConfig.secret = ""
    /\ ~apiConfig.testResult.isNull
    /\ ~apiConfig.testResult.success
    /\ apiConfig.testResult.message = "fill both fields"
    /\ ~apiConfig.loading
    /\ apiConfig.pc = "idle"

\* C25: at most one save or test is in flight: loading is true exactly while
\* one is, an operation starts only from a state where loading is false and
\* none is in flight, and the step that ends an operation leaves loading
\* false and none in flight.
C25_OneOperationInFlight ==
    [][ /\ apiConfig.loading <=> apiConfig.pc # "idle"
        /\ apiConfig'.loading <=> apiConfig'.pc # "idle"
        /\ (apiConfig'.pc # apiConfig.pc /\ apiConfig'.pc # "idle")
              => ~apiConfig.loading /\ apiConfig.pc = "idle"
        /\ (apiConfig'.pc # apiConfig.pc /\ apiConfig.pc # "idle")
              => ~apiConfig'.loading /\ apiConfig'.pc = "idle" ]_vars

\* A save has completed and a later test has failed; loading is off again.
C25_Witness ==
    /\ ~apiConfig.configs[SelectedExchange].isNull
    /\ ~apiConfig.testResult.isNull
    /\ apiConfig.testResult.message = "invalid keys"
    /\ ~apiConfig.loading
    /\ apiConfig.pc = "idle"

=============================================================================
